---------------------------- MODULE Spec2Model ----------------------------
(***************************************************************************)
(* BSON <-> JSON converter (BSONJSONConverter component).                  *)
(*                                                                         *)
(* Texts are sequences of one-character strings, buffers are sequences of  *)
(* bytes (0..255).  JavaScript values are tagged records:                  *)
(*   [t |-> "null"], [t |-> "bool", b], [t |-> "number", n, d] (the value  *)
(*   n/d, reduced, d > 0), [t |-> "string", s], [t |-> "array", a],        *)
(*   [t |-> "object", p] (p: the own properties in enumeration order),     *)
(* and the instances BSON.deserialize creates:                             *)
(*   ObjectId, Date, Long, Binary, RegExp, Timestamp, Decimal128, MinKey,  *)
(*   MaxKey.                                                               *)
(***************************************************************************)
EXTENDS Integers, Sequences, FiniteSets, TLC

(***************************************************************************)
(* Characters                                                              *)
(***************************************************************************)
Ascii ==
  <<
    " ", "!", "\"", "#", "$", "%", "&", "'", "(", ")", "*", "+", ",", "-", ".", "/",
    "0", "1", "2", "3", "4", "5", "6", "7", "8", "9", ":", ";", "<", "=", ">", "?",
    "@", "A", "B", "C", "D", "E", "F", "G", "H", "I", "J", "K", "L", "M", "N", "O",
    "P", "Q", "R", "S", "T", "U", "V", "W", "X", "Y", "Z", "[", "\\", "]", "^", "_",
    "U+0060", "a", "b", "c", "d", "e", "f", "g", "h", "i", "j", "k", "l", "m", "n", "o",
    "p", "q", "r", "s", "t", "u", "v", "w", "x", "y", "z", "{", "|", "}", "~"
  >>

HexDigits == <<"0", "1", "2", "3", "4", "5", "6", "7", "8", "9",
               "a", "b", "c", "d", "e", "f">>

HexUpper == <<"0", "1", "2", "3", "4", "5", "6", "7", "8", "9",
              "A", "B", "C", "D", "E", "F">>

\* The character with code c: ASCII (the grave accent, which a TLA+ string
\* cannot hold, as "U+0060"), and a "U+XXXX" marker for every other code
\* unit (one element of a text all the same).
CodeUnit(c) ==
  IF c >= 32 /\ c <= 126 THEN Ascii[c - 31]
  ELSE IF c = 9 THEN "\t"
  ELSE IF c = 10 THEN "\n"
  ELSE IF c = 13 THEN "\r"
  ELSE "U+" \o HexUpper[((c \div 4096) % 16) + 1] \o HexUpper[((c \div 256) % 16) + 1]
            \o HexUpper[((c \div 16) % 16) + 1] \o HexUpper[(c % 16) + 1]

AsciiCodes == {9, 10, 13} \cup (32..126)

\* The code of each ASCII character.
Codes == [ch \in {CodeUnit(c) : c \in AsciiCodes} |-> CHOOSE c \in AsciiCodes : CodeUnit(c) = ch]

IsAscii(ch) == ch \in DOMAIN Codes

Ord(ch) == Codes[ch]

IsDigit(ch) == ch \in {"0", "1", "2", "3", "4", "5", "6", "7", "8", "9"}

DigitVal(ch) == CHOOSE k \in 0..9 : HexDigits[k + 1] = ch

IsHex(ch) == \E k \in 1..16 : HexDigits[k] = ch \/ HexUpper[k] = ch

HexVal(ch) == CHOOSE k \in 0..15 : HexDigits[k + 1] = ch \/ HexUpper[k + 1] = ch

IsWs(ch) == ch \in {" ", "\n", "\t", "\r"}

\* A character JSON forbids unescaped inside a string (code below 0x20).
IsControl(ch) == ch \in {"\n", "\t", "\r"} \/ (\E c \in 0..31 : CodeUnit(c) = ch)

RECURSIVE Pow(_, _)
Pow(b, e) == IF e = 0 THEN 1 ELSE b * Pow(b, e - 1)

Abs(x) == IF x < 0 THEN -x ELSE x

RECURSIVE Gcd(_, _)
Gcd(a, b) == IF b = 0 THEN a ELSE Gcd(b, a % b)

\* The JavaScript number n/d, in lowest terms.
Num(n, d) ==
  LET g == Gcd(Abs(n), d)
  IN  [t |-> "number", n |-> n \div g, d |-> d \div g]

JSNull == [t |-> "null"]
JSBool(b) == [t |-> "bool", b |-> b]
JSString(s) == [t |-> "string", s |-> s]
JSArray(a) == [t |-> "array", a |-> a]
JSObject(p) == [t |-> "object", p |-> p]

(***************************************************************************)
(* Object properties: own-property enumeration order of a JavaScript       *)
(* object (array-index keys ascending first, then creation order).         *)
(***************************************************************************)
RECURSIVE DigitsValue(_, _, _, _)
DigitsValue(s, i, j, acc) ==
  IF i > j THEN acc ELSE DigitsValue(s, i + 1, j, acc * 10 + DigitVal(s[i]))

\* A canonical array index ("0", "7", "12"; no sign, no leading zero).
IsIndexKey(k) ==
  /\ Len(k) >= 1 /\ Len(k) <= 9
  /\ \A i \in 1..Len(k) : IsDigit(k[i])
  /\ (Len(k) > 1 => k[1] # "0")

IndexOf(k) == DigitsValue(k, 1, Len(k), 0)

HasKey(p, k) == \E i \in 1..Len(p) : p[i].k = k

\* The place where a new key k goes in the property list p.
InsertAt(p, k) ==
  IF IsIndexKey(k)
  THEN Cardinality({i \in 1..Len(p) : IsIndexKey(p[i].k) /\ IndexOf(p[i].k) < IndexOf(k)}) + 1
  ELSE Len(p) + 1

\* CreateDataProperty(obj, k, v): an existing key keeps its place.
SetProperty(p, k, v) ==
  IF HasKey(p, k)
  THEN [i \in 1..Len(p) |-> IF p[i].k = k THEN [k |-> k, v |-> v] ELSE p[i]]
  ELSE LET at == InsertAt(p, k)
       IN  SubSeq(p, 1, at - 1) \o <<[k |-> k, v |-> v]>> \o SubSeq(p, at, Len(p))

(***************************************************************************)
(* JSON.parse                                                              *)
(***************************************************************************)
Fail == [ok |-> FALSE]
Ok(v, i) == [ok |-> TRUE, v |-> v, i |-> i]

RECURSIVE SkipWs(_, _)
SkipWs(s, i) == IF i <= Len(s) /\ IsWs(s[i]) THEN SkipWs(s, i + 1) ELSE i

RECURSIVE SkipDigits(_, _)
SkipDigits(s, i) == IF i <= Len(s) /\ IsDigit(s[i]) THEN SkipDigits(s, i + 1) ELSE i

At(s, i, ch) == i <= Len(s) /\ s[i] = ch

\* The character that the escape after the backslash s[i] stands for, and how
\* many characters the escape takes.
Escape(s, i) ==
  IF i + 1 > Len(s) THEN Fail
  ELSE IF s[i + 1] \in {"\"", "\\", "/"} THEN [ok |-> TRUE, ch |-> s[i + 1], n |-> 2]
  ELSE IF s[i + 1] = "n" THEN [ok |-> TRUE, ch |-> "\n", n |-> 2]
  ELSE IF s[i + 1] = "t" THEN [ok |-> TRUE, ch |-> "\t", n |-> 2]
  ELSE IF s[i + 1] = "r" THEN [ok |-> TRUE, ch |-> "\r", n |-> 2]
  ELSE IF s[i + 1] = "b" THEN [ok |-> TRUE, ch |-> CodeUnit(8), n |-> 2]
  ELSE IF s[i + 1] = "f" THEN [ok |-> TRUE, ch |-> CodeUnit(12), n |-> 2]
  ELSE IF s[i + 1] = "u" /\ i + 5 <= Len(s) /\ \A j \in (i + 2)..(i + 5) : IsHex(s[j])
  THEN [ok |-> TRUE, n |-> 6,
        ch |-> CodeUnit(HexVal(s[i + 2]) * 4096 + HexVal(s[i + 3]) * 256
                        + HexVal(s[i + 4]) * 16 + HexVal(s[i + 5]))]
  ELSE Fail

\* One character of a string literal at s[i] (not its closing quote).
StringChar(s, i) ==
  IF s[i] = "\\" THEN Escape(s, i)
  ELSE IF IsControl(s[i]) THEN Fail
  ELSE [ok |-> TRUE, ch |-> s[i], n |-> 1]

\* The characters of a string literal whose opening quote is before s[i].
RECURSIVE ParseChars(_, _, _)
ParseChars(s, i, acc) ==
  IF i > Len(s) THEN Fail
  ELSE IF s[i] = "\"" THEN Ok(JSString(acc), i + 1)
  ELSE LET c == StringChar(s, i)
       IN  IF c.ok THEN ParseChars(s, i + c.n, Append(acc, c.ch)) ELSE Fail

\* A number literal at s[i]:  -? (0 | [1-9][0-9]*) (. [0-9]+)? ([eE] [+-]? [0-9]+)?
ParseNumber(s, i) ==
  LET neg   == At(s, i, "-")
      i0    == IF neg THEN i + 1 ELSE i
      i1    == IF At(s, i0, "0") THEN i0 + 1 ELSE SkipDigits(s, i0)
      hasF  == At(s, i1, ".")
      i2    == IF hasF THEN SkipDigits(s, i1 + 1) ELSE i1
      hasE  == At(s, i2, "e") \/ At(s, i2, "E")
      eNeg  == hasE /\ At(s, i2 + 1, "-")
      i3    == IF hasE /\ (At(s, i2 + 1, "-") \/ At(s, i2 + 1, "+")) THEN i2 + 2 ELSE i2 + 1
      i4    == IF hasE THEN SkipDigits(s, i3) ELSE i2
      whole == DigitsValue(s, i0, i1 - 1, 0)
      fracN == IF hasF THEN DigitsValue(s, i1 + 1, i2 - 1, 0) ELSE 0
      fracK == IF hasF THEN i2 - (i1 + 1) ELSE 0
      e     == IF hasE THEN DigitsValue(s, i3, i4 - 1, 0) ELSE 0
      mant  == whole * Pow(10, fracK) + fracN
      n     == IF hasE /\ ~eNeg THEN mant * Pow(10, e) ELSE mant
      d     == IF eNeg THEN Pow(10, fracK + e) ELSE Pow(10, fracK)
  IN  IF i1 = i0 THEN Fail
      ELSE IF hasF /\ i2 = i1 + 1 THEN Fail
      ELSE IF hasE /\ i4 = i3 THEN Fail
      ELSE Ok(Num(IF neg THEN -n ELSE n, d), i4)

Literal(s, i, word, v) ==
  IF i + Len(word) - 1 <= Len(s) /\ SubSeq(s, i, i + Len(word) - 1) = word
  THEN Ok(v, i + Len(word))
  ELSE Fail

RECURSIVE ParseValue(_, _)
RECURSIVE ParseMembers(_, _, _)
RECURSIVE ParseElements(_, _, _)

\* A member whose key k is read, given what its value parsed to.
MemberOf(s, k, val) ==
  IF val.ok THEN [ok |-> TRUE, k |-> k, v |-> val.v, i |-> SkipWs(s, val.i)] ELSE Fail

\* A member, given what its key parsed to: the colon and the value follow.
MemberAfter(s, key) ==
  IF key.ok /\ At(s, SkipWs(s, key.i), ":")
  THEN MemberOf(s, key.v.s, ParseValue(s, SkipWs(s, key.i) + 1))
  ELSE Fail

\* One member, "key" : value, at s[i]: [ok, k, v, i].
ParseMember(s, i) ==
  IF At(s, SkipWs(s, i), "\"") THEN MemberAfter(s, ParseChars(s, SkipWs(s, i) + 1, <<>>))
  ELSE Fail

\* The object of the members p and m, or the members that follow a comma.
MembersAfter(s, m, p) ==
  IF ~m.ok THEN Fail
  ELSE IF At(s, m.i, ",") THEN ParseMembers(s, m.i + 1, SetProperty(p, m.k, m.v))
  ELSE IF At(s, m.i, "}") THEN Ok(JSObject(SetProperty(p, m.k, m.v)), m.i + 1)
  ELSE Fail

\* The members of an object after "{" or ",": s[i] starts a key.
ParseMembers(s, i, p) == MembersAfter(s, ParseMember(s, i), p)

\* The array of the elements a and val, or the elements that follow a comma.
ElementsAfter(s, val, a) ==
  IF ~val.ok THEN Fail
  ELSE IF At(s, SkipWs(s, val.i), ",") THEN ParseElements(s, SkipWs(s, val.i) + 1, Append(a, val.v))
  ELSE IF At(s, SkipWs(s, val.i), "]") THEN Ok(JSArray(Append(a, val.v)), SkipWs(s, val.i) + 1)
  ELSE Fail

\* The elements of an array after "[" or ",": s[i] starts a value.
ParseElements(s, i, a) == ElementsAfter(s, ParseValue(s, i), a)

\* The value at s[j], no white space before it.
ValueAt(s, j) ==
  IF j > Len(s) THEN Fail
  ELSE IF s[j] = "{" THEN
    (IF At(s, SkipWs(s, j + 1), "}") THEN Ok(JSObject(<<>>), SkipWs(s, j + 1) + 1)
     ELSE ParseMembers(s, j + 1, <<>>))
  ELSE IF s[j] = "[" THEN
    (IF At(s, SkipWs(s, j + 1), "]") THEN Ok(JSArray(<<>>), SkipWs(s, j + 1) + 1)
     ELSE ParseElements(s, j + 1, <<>>))
  ELSE IF s[j] = "\"" THEN ParseChars(s, j + 1, <<>>)
  ELSE IF s[j] = "-" \/ IsDigit(s[j]) THEN ParseNumber(s, j)
  ELSE IF s[j] = "t" THEN Literal(s, j, <<"t", "r", "u", "e">>, JSBool(TRUE))
  ELSE IF s[j] = "f" THEN Literal(s, j, <<"f", "a", "l", "s", "e">>, JSBool(FALSE))
  ELSE IF s[j] = "n" THEN Literal(s, j, <<"n", "u", "l", "l">>, JSNull)
  ELSE Fail

ParseValue(s, i) == ValueAt(s, SkipWs(s, i))

\* The text's value r, if nothing but white space follows it.
WholeText(s, r) ==
  IF r.ok /\ SkipWs(s, r.i) = Len(s) + 1 THEN [ok |-> TRUE, v |-> r.v] ELSE Fail

\* JSON.parse(text): the value, or a SyntaxError (ok = FALSE).
JSONparse(s) == WholeText(s, ParseValue(s, 1))

(***************************************************************************)
(* Unsigned integers wider than TLC's:         big-endian base-256 digits. *)
(***************************************************************************)
Reverse(s) == [i \in 1..Len(s) |-> s[Len(s) + 1 - i]]

\* f[lo] \o ... \o f[hi] for a sequence (or function) f of sequences.
RECURSIVE Flatten(_, _, _)
Flatten(f, lo, hi) ==
  IF lo > hi THEN <<>>
  ELSE IF lo = hi THEN f[lo]
  ELSE Flatten(f, lo, (lo + hi) \div 2) \o Flatten(f, ((lo + hi) \div 2) + 1, hi)

IsZero(be) == \A i \in 1..Len(be) : be[i] = 0

\* be divided by D (0 < D < 2^23): [q |-> the quotient's digits, r |-> the rest].
RECURSIVE LongDiv(_, _, _, _)
LongDiv(be, D, i, acc) ==
  IF i > Len(be) THEN acc
  ELSE LET cur == acc.r * 256 + be[i]
       IN  LongDiv(be, D, i + 1, [q |-> Append(acc.q, cur \div D), r |-> cur % D])

Div(be, D) == LongDiv(be, D, 1, [q |-> <<>>, r |-> 0]).q
Mod(be, D) == LongDiv(be, D, 1, [q |-> <<>>, r |-> 0]).r

\* The value of be, which must fit TLC's integers.
RECURSIVE Small(_, _, _)
Small(be, i, acc) == IF i > Len(be) THEN acc ELSE Small(be, i + 1, acc * 256 + be[i])

\* The decimal digits of be, most significant first ("0" for zero).
RECURSIVE DecimalDigits(_)
DecimalDigits(be) ==
  IF IsZero(be) THEN <<>>
  ELSE Append(DecimalDigits(Div(be, 10)), HexDigits[Mod(be, 10) + 1])

BigToString(be) == IF IsZero(be) THEN <<"0">> ELSE DecimalDigits(be)

RECURSIVE NatToString(_)
NatToString(k) ==
  IF k < 10 THEN <<HexDigits[k + 1]>>
  ELSE Append(NatToString(k \div 10), HexDigits[(k % 10) + 1])

IntToString(k) == IF k < 0 THEN <<"-">> \o NatToString(-k) ELSE NatToString(k)

\* k in at least w digits, zero-padded on the left.
RECURSIVE Pad(_, _)
Pad(s, w) == IF Len(s) >= w THEN s ELSE Pad(<<"0">> \o s, w)

(***************************************************************************)
(* Number::toString for the numbers of the model: integers, and fractions  *)
(* with a finite decimal expansion printed in positional notation.         *)
(***************************************************************************)
RECURSIVE FractionDigits(_, _)
FractionDigits(r, d) ==
  IF r = 0 THEN <<>>
  ELSE <<HexDigits[((r * 10) \div d) + 1]>> \o FractionDigits((r * 10) % d, d)

NumberToString(x) ==
  LET a == Abs(x.n)
      sign == IF x.n < 0 THEN <<"-">> ELSE <<>>
  IN  IF x.d = 1 THEN sign \o NatToString(a)
      ELSE sign \o NatToString(a \div x.d) \o <<".">> \o FractionDigits(a % x.d, x.d)

(***************************************************************************)
(* toJSON of the BSON classes and of Date                                  *)
(***************************************************************************)
ToHex(bytes) ==
  Flatten([i \in 1..Len(bytes) |->
             <<HexDigits[(bytes[i] \div 16) + 1], HexDigits[(bytes[i] % 16) + 1]>>],
          1, Len(bytes))

Base64Alphabet ==
  <<"A", "B", "C", "D", "E", "F", "G", "H", "I", "J", "K", "L", "M", "N", "O", "P",
    "Q", "R", "S", "T", "U", "V", "W", "X", "Y", "Z", "a", "b", "c", "d", "e", "f",
    "g", "h", "i", "j", "k", "l", "m", "n", "o", "p", "q", "r", "s", "t", "u", "v",
    "w", "x", "y", "z", "0", "1", "2", "3", "4", "5", "6", "7", "8", "9", "+", "/">>

RECURSIVE ToBase64(_)
ToBase64(b) ==
  IF Len(b) = 0 THEN <<>>
  ELSE IF Len(b) = 1 THEN
    <<Base64Alphabet[(b[1] \div 4) + 1], Base64Alphabet[((b[1] % 4) * 16) + 1], "=", "=">>
  ELSE IF Len(b) = 2 THEN
    <<Base64Alphabet[(b[1] \div 4) + 1],
      Base64Alphabet[((b[1] % 4) * 16 + (b[2] \div 16)) + 1],
      Base64Alphabet[((b[2] % 16) * 4) + 1], "=">>
  ELSE
    <<Base64Alphabet[(b[1] \div 4) + 1],
      Base64Alphabet[((b[1] % 4) * 16 + (b[2] \div 16)) + 1],
      Base64Alphabet[((b[2] % 16) * 4 + (b[3] \div 64)) + 1],
      Base64Alphabet[(b[3] % 64) + 1]>> \o ToBase64(SubSeq(b, 4, Len(b)))

\* Date.prototype.toISOString for a time value of 0 .. 9999-12-31 (ms: the
\* milliseconds since the epoch, big-endian digits); the civil date from the
\* day number by the Gregorian rules.
ToISOString(ms) ==
  LET secs  == Div(ms, 1000)
      mins  == Div(secs, 60)
      hours == Div(mins, 60)
      days  == Small(Div(hours, 24), 1, 0)
      z     == days + 719468
      era   == z \div 146097
      doe   == z - era * 146097
      yoe   == (doe - doe \div 1460 + doe \div 36524 - doe \div 146096) \div 365
      doy   == doe - (365 * yoe + yoe \div 4 - yoe \div 100)
      mp    == (5 * doy + 2) \div 153
      day   == doy - (153 * mp + 2) \div 5 + 1
      month == IF mp < 10 THEN mp + 3 ELSE mp - 9
      year  == yoe + era * 400 + (IF month <= 2 THEN 1 ELSE 0)
  IN  Pad(NatToString(year), 4) \o <<"-">> \o Pad(NatToString(month), 2) \o <<"-">>
        \o Pad(NatToString(day), 2) \o <<"T">> \o Pad(NatToString(Mod(hours, 24)), 2)
        \o <<":">> \o Pad(NatToString(Mod(mins, 60)), 2) \o <<":">>
        \o Pad(NatToString(Mod(secs, 60)), 2) \o <<".">>
        \o Pad(NatToString(Mod(ms, 1000)), 3) \o <<"Z">>

\* The signed 32-bit integer of four little-endian bytes.
Int32Of(b) ==
  b[1] + b[2] * 256 + b[3] * 65536
    + (IF b[4] >= 128 THEN b[4] - 256 ELSE b[4]) * 16777216

RECURSIVE Zeros(_)
Zeros(k) == IF k <= 0 THEN <<>> ELSE <<"0">> \o Zeros(k - 1)

\* Decimal128.prototype.toString of the 16 little-endian bytes b.
Decimal128ToString(b) ==
  LET negative == b[16] >= 128
      special  == (b[16] \div 32) % 4 = 3
      comb     == (b[16] \div 4) % 32
      biased   == IF special THEN (b[15] \div 128) + (b[16] % 32) * 2 + 0 * b[14]
                  ELSE (b[15] \div 2) + (b[16] % 128) * 128
      exponent == IF special THEN ((b[14] \div 128) + b[15] * 2 + (b[16] % 32) * 512) - 6176
                  ELSE biased - 6176
      \* A significand of the "11" forms is over 34 digits: not canonical, read as 0.
      be       == IF special THEN <<0>>
                  ELSE <<b[15] % 2>> \o Reverse(SubSeq(b, 1, 14))
      digits   == BigToString(be)
      nd       == Len(digits)
      sci      == nd - 1 + exponent
      sign     == IF negative THEN <<"-">> ELSE <<>>
      radix    == nd + exponent
  IN  IF special /\ comb = 30 THEN sign \o <<"I", "n", "f", "i", "n", "i", "t", "y">>
      ELSE IF special /\ comb = 31 THEN <<"N", "a", "N">>
      ELSE IF sci >= 34 \/ sci <= -7 \/ exponent > 0
      THEN sign \o <<digits[1]>>
             \o (IF nd > 1 THEN <<".">> \o SubSeq(digits, 2, nd) ELSE <<>>)
             \o <<"E">> \o (IF sci > 0 THEN <<"+">> \o NatToString(sci) ELSE IntToString(sci))
      ELSE IF exponent >= 0 THEN sign \o digits
      ELSE sign \o (IF radix > 0 THEN SubSeq(digits, 1, radix) ELSE <<"0">>)
             \o <<".">> \o Zeros(-radix)
             \o SubSeq(digits, (IF radix > 0 THEN radix ELSE 0) + 1, nd)

Str(word) == JSString(word)

Prop(k, v) == [k |-> k, v |-> v]

\* What JSON.stringify serializes in place of v: v.toJSON() where the class
\* has one, the own enumerable properties where it has none.
ToJSON(v) ==
  CASE v.t = "ObjectId"   -> JSString(ToHex(v.id))
    [] v.t = "Date"       -> JSString(ToISOString(Reverse(v.raw)))
    [] v.t = "Binary"     -> JSString(ToBase64(v.buffer))
    [] v.t = "Decimal128" ->
         JSObject(<<Prop(<<"$", "n", "u", "m", "b", "e", "r", "D", "e", "c", "i", "m", "a", "l">>,
                         JSString(Decimal128ToString(v.bytes)))>>)
    [] v.t = "Timestamp"  ->
         JSObject(<<Prop(<<"$", "t", "i", "m", "e", "s", "t", "a", "m", "p">>,
                         JSString(BigToString(Reverse(v.raw))))>>)
    [] v.t = "Long"       ->
         JSObject(<<Prop(<<"l", "o", "w">>, Num(Int32Of(SubSeq(v.raw, 1, 4)), 1)),
                    Prop(<<"h", "i", "g", "h">>, Num(Int32Of(SubSeq(v.raw, 5, 8)), 1)),
                    Prop(<<"u", "n", "s", "i", "g", "n", "e", "d">>, JSBool(FALSE))>>)
    [] v.t \in {"RegExp", "MinKey", "MaxKey"} -> JSObject(<<>>)
    [] OTHER -> v

(***************************************************************************)
(* JSON.stringify(value, null, 2)                                          *)
(***************************************************************************)
\* QuoteJSONString: the escapes of one character.
QuoteChar(ch) ==
  IF ch = "\"" THEN <<"\\", "\"">>
  ELSE IF ch = "\\" THEN <<"\\", "\\">>
  ELSE IF ch = "\n" THEN <<"\\", "n">>
  ELSE IF ch = "\t" THEN <<"\\", "t">>
  ELSE IF ch = "\r" THEN <<"\\", "r">>
  ELSE IF ch = CodeUnit(8) THEN <<"\\", "b">>
  ELSE IF ch = CodeUnit(12) THEN <<"\\", "f">>
  ELSE IF \E c \in 0..31 : CodeUnit(c) = ch
  THEN LET c == CHOOSE c \in 0..31 : CodeUnit(c) = ch
       IN  <<"\\", "u", "0", "0", HexDigits[(c \div 16) + 1], HexDigits[(c % 16) + 1]>>
  ELSE <<ch>>

Quote(s) == <<"\"">> \o Flatten([i \in 1..Len(s) |-> QuoteChar(s[i])], 1, Len(s)) \o <<"\"">>

Gap == <<" ", " ">>

RECURSIVE Stringify(_, _)
RECURSIVE StringifyProps(_, _, _)
RECURSIVE StringifyItems(_, _, _)

\* SerializeJSONProperty of v, which is what toJSON returned, with the current
\* indentation ind.
Serialized(v, ind) ==
  CASE v.t \in {"null", "nonfinite"} -> <<"n", "u", "l", "l">>
    [] v.t = "bool"   -> IF v.b THEN <<"t", "r", "u", "e">> ELSE <<"f", "a", "l", "s", "e">>
    [] v.t = "number" -> NumberToString(v)
    [] v.t = "string" -> Quote(v.s)
    [] v.t = "array"  ->
         IF v.a = <<>> THEN <<"[", "]">>
         ELSE <<"[", "\n">> \o StringifyItems(v.a, 1, ind \o Gap) \o <<"\n">> \o ind \o <<"]">>
    [] v.t = "object" ->
         IF v.p = <<>> THEN <<"{", "}">>
         ELSE <<"{", "\n">> \o StringifyProps(v.p, 1, ind \o Gap) \o <<"\n">> \o ind \o <<"}">>

Stringify(value, ind) == Serialized(ToJSON(value), ind)

StringifyProps(p, i, ind) ==
  ind \o Quote(p[i].k) \o <<":", " ">> \o Stringify(p[i].v, ind)
    \o (IF i = Len(p) THEN <<>> ELSE <<",", "\n">> \o StringifyProps(p, i + 1, ind))

StringifyItems(a, i, ind) ==
  ind \o Stringify(a[i], ind)
    \o (IF i = Len(a) THEN <<>> ELSE <<",", "\n">> \o StringifyItems(a, i + 1, ind))

\* JSON.stringify(document, null, 2)
JSONstringify(value) == Stringify(value, <<>>)

(***************************************************************************)
(* UTF-8                                                                   *)
(***************************************************************************)
Replacement == CodeUnit(65533)

IsCont(b, i) == i >= 1 /\ i <= Len(b) /\ b[i] >= 128 /\ b[i] < 192

\* The length of the UTF-8 sequence (of one to three bytes) that b[i] starts;
\* 1 for a byte that starts none, which decodes to U+FFFD.
SeqLen(b, i) ==
  IF i < 1 \/ i > Len(b) THEN 0
  ELSE IF b[i] >= 194 /\ b[i] < 224 /\ IsCont(b, i + 1) THEN 2
  ELSE IF b[i] >= 224 /\ b[i] < 240 /\ IsCont(b, i + 1) /\ IsCont(b, i + 2)
          /\ (b[i] - 224) * 4096 + (b[i + 1] - 128) * 64 + (b[i + 2] - 128) >= 2048
  THEN 3
  ELSE 1

\* b[i] continues the sequence a byte before it starts.
Continues(b, i) == IsCont(b, i) /\ (SeqLen(b, i - 1) >= 2 \/ SeqLen(b, i - 2) = 3)

DecodeAt(b, i) ==
  IF Continues(b, i) THEN <<>>
  ELSE IF b[i] < 128 THEN <<CodeUnit(b[i])>>
  ELSE IF SeqLen(b, i) = 2 THEN <<CodeUnit((b[i] - 192) * 64 + (b[i + 1] - 128))>>
  ELSE IF SeqLen(b, i) = 3
  THEN <<CodeUnit((b[i] - 224) * 4096 + (b[i + 1] - 128) * 64 + (b[i + 2] - 128))>>
  ELSE <<Replacement>>

\* The text of the UTF-8 bytes b.
Utf8Decode(b) == Flatten([i \in 1..Len(b) |-> DecodeAt(b, i)], 1, Len(b))

CodeOf(ch) ==
  IF IsAscii(ch) THEN Ord(ch) ELSE CHOOSE c \in 0..65535 : CodeUnit(c) = ch

Utf8EncodeChar(ch) ==
  LET c == CodeOf(ch)
  IN  IF c < 128 THEN <<c>>
      ELSE IF c < 2048 THEN <<192 + (c \div 64), 128 + (c % 64)>>
      ELSE <<224 + (c \div 4096), 128 + ((c \div 64) % 64), 128 + (c % 64)>>

Utf8Encode(s) == Flatten([i \in 1..Len(s) |-> Utf8EncodeChar(s[i])], 1, Len(s))

\* new TextDecoder().decode(buffer): UTF-8, a leading byte order mark dropped.
TextDecode(b) ==
  IF Len(b) >= 3 /\ SubSeq(b, 1, 3) = <<239, 187, 191>> THEN Utf8Decode(SubSeq(b, 4, Len(b)))
  ELSE Utf8Decode(b)

(***************************************************************************)
(* BSON.deserialize                                                        *)
(***************************************************************************)
\* buffer[p] with the 0 that JavaScript's bit operators make of a read past
\* the end.
Byte(b, p) == IF p >= 1 /\ p <= Len(b) THEN b[p] ELSE 0

Int32At(b, p) == Int32Of(<<Byte(b, p), Byte(b, p + 1), Byte(b, p + 2), Byte(b, p + 3)>>)

\* The position of the first 0x00 at or after p, Len(b) + 1 when there is none.
RECURSIVE FindNul(_, _)
FindNul(b, p) == IF p > Len(b) \/ b[p] = 0 THEN p ELSE FindNul(b, p + 1)

\* b[p .. p + n - 1], cut at the end of the buffer as Uint8Array.slice cuts.
Slice(b, p, n) == SubSeq(b, p, IF p + n - 1 > Len(b) THEN Len(b) ELSE p + n - 1)

NotANumber == [t |-> "nonfinite"]

\* A value the model does not carry (no operator accepts it).
Unmodelled == [t |-> "unmodelled"]

\* The IEEE-754 double of eight little-endian bytes whose fraction has at
\* most twelve significant bits.
Float64Of(b) ==
  LET negative == b[8] >= 128
      E    == (b[8] % 128) * 16 + (b[7] \div 16)
      M12  == (b[7] % 16) * 256 + b[6]
      rest == b[1] + b[2] + b[3] + b[4] + b[5]
      e    == E - 1035
      m    == IF negative THEN -(4096 + M12) ELSE 4096 + M12
  IN  IF E = 2047 THEN NotANumber
      ELSE IF E = 0 /\ M12 = 0 /\ rest = 0 THEN Num(0, 1)
      ELSE IF rest # 0 \/ E = 0 \/ e > 18 \/ e < -30 THEN Unmodelled
      ELSE IF e >= 0 THEN Num(m * Pow(2, e), 1)
      ELSE Num(m, Pow(2, -e))

\* promoteLongs: a Long within +-2^53 becomes a number, any other stays a Long.
PromoteLong(raw) ==
  LET high == Int32Of(SubSeq(raw, 5, 8))
      lowZero == raw[1] = 0 /\ raw[2] = 0 /\ raw[3] = 0 /\ raw[4] = 0
  IN  IF (high >= -2097152 /\ high < 2097152) \/ (high = 2097152 /\ lowZero)
      THEN IF (high = 0 /\ raw[4] < 128) \/ (high = -1 /\ raw[4] >= 128)
           THEN Num(Int32Of(SubSeq(raw, 1, 4)), 1)
           ELSE Unmodelled
      ELSE [t |-> "Long", raw |-> raw]

RECURSIVE DeserializeObject(_, _, _)
RECURSIVE DeserializeElements(_, _, _, _, _, _)

\* The value of type code ty whose payload starts at b[p]: [ok, v, i] with i
\* the position after it.
DeserializeValue(b, ty, p) ==
  CASE ty = 1 ->   \* double
         Ok(Float64Of(<<Byte(b, p), Byte(b, p + 1), Byte(b, p + 2), Byte(b, p + 3),
                        Byte(b, p + 4), Byte(b, p + 5), Byte(b, p + 6), Byte(b, p + 7)>>), p + 8)
    [] ty = 2 ->   \* string
         LET n == Int32At(b, p)
         IN  IF n <= 0 \/ n > Len(b) - (p + 3) \/ Byte(b, p + 4 + n - 1) # 0 THEN Fail
             ELSE Ok(JSString(Utf8Decode(SubSeq(b, p + 4, p + 4 + n - 2))), p + 4 + n)
    [] ty = 3 ->   \* embedded document
         LET n == Int32At(b, p)
         IN  IF n <= 0 \/ n > Len(b) - (p - 1) THEN Fail
             ELSE LET r == DeserializeObject(b, p, FALSE)
                  IN  IF r.ok THEN Ok(r.v, p + n) ELSE Fail
    [] ty = 4 ->   \* array
         LET n == Int32At(b, p)
             r == DeserializeObject(b, p, TRUE)
         IN  IF ~r.ok THEN Fail
             ELSE IF Byte(b, p + n - 1) # 0 THEN Fail
             ELSE Ok(r.v, p + n)
    [] ty = 5 ->   \* binary
         LET n   == Int32At(b, p)
             sub == Byte(b, p + 4)
         IN  IF n < 0 \/ n > Len(b) THEN Fail
             ELSE IF sub = 2 THEN
               LET inner == Int32At(b, p + 5)
               IN  IF inner < 0 \/ inner # n - 4 THEN Fail
                   ELSE Ok([t |-> "Binary", sub_type |-> sub, buffer |-> Slice(b, p + 9, inner)],
                           p + 9 + inner)
             ELSE Ok([t |-> "Binary", sub_type |-> sub, buffer |-> Slice(b, p + 5, n)], p + 5 + n)
    [] ty = 7 ->   \* ObjectId
         IF p + 11 > Len(b) THEN Fail
         ELSE Ok([t |-> "ObjectId", id |-> SubSeq(b, p, p + 11)], p + 12)
    [] ty = 8 ->   \* boolean
         IF p > Len(b) \/ b[p] > 1 THEN Fail ELSE Ok(JSBool(b[p] = 1), p + 1)
    [] ty = 9 ->   \* UTC datetime
         Ok([t |-> "Date", raw |-> <<Byte(b, p), Byte(b, p + 1), Byte(b, p + 2), Byte(b, p + 3),
                                     Byte(b, p + 4), Byte(b, p + 5), Byte(b, p + 6), Byte(b, p + 7)>>],
            p + 8)
    [] ty = 10 ->  \* null
         Ok(JSNull, p)
    [] ty = 11 ->  \* regular expression
         LET q == FindNul(b, p)
             r == FindNul(b, q + 1)
         IN  IF q > Len(b) \/ r > Len(b) THEN Fail
             ELSE Ok([t |-> "RegExp", source |-> Utf8Decode(SubSeq(b, p, q - 1)),
                      flags |-> Utf8Decode(SubSeq(b, q + 1, r - 1))], r + 1)
    [] ty = 16 ->  \* int32
         Ok(Num(Int32At(b, p), 1), p + 4)
    [] ty = 17 ->  \* timestamp
         Ok([t |-> "Timestamp", raw |-> <<Byte(b, p), Byte(b, p + 1), Byte(b, p + 2), Byte(b, p + 3),
                                          Byte(b, p + 4), Byte(b, p + 5), Byte(b, p + 6), Byte(b, p + 7)>>],
            p + 8)
    [] ty = 18 ->  \* int64
         Ok(PromoteLong(<<Byte(b, p), Byte(b, p + 1), Byte(b, p + 2), Byte(b, p + 3),
                          Byte(b, p + 4), Byte(b, p + 5), Byte(b, p + 6), Byte(b, p + 7)>>), p + 8)
    [] ty = 19 ->  \* decimal128
         IF p + 15 > Len(b) THEN Fail
         ELSE Ok([t |-> "Decimal128", bytes |-> SubSeq(b, p, p + 15)], p + 16)
    [] ty = 255 -> Ok([t |-> "MinKey"], p)
    [] ty = 127 -> Ok([t |-> "MaxKey"], p)
    [] ty \in {6, 12, 13, 14, 15} -> Ok(Unmodelled, p)
    [] OTHER -> Fail   \* Detected unknown BSON type

\* The elements from b[p] of the document or array that starts at b[start]
\* and declares size bytes; acc is what was read so far.
DeserializeElements(b, start, size, p, isArray, acc) ==
  IF p > Len(b) THEN Fail
  ELSE IF b[p] = 0 THEN
    (IF size # p + 1 - start THEN Fail
     ELSE Ok(IF isArray THEN JSArray(acc) ELSE JSObject(acc), p + 1))
  ELSE LET q == FindNul(b, p + 1)
       IN  IF q > Len(b) THEN Fail
           ELSE LET val == DeserializeValue(b, b[p], q + 1)
                IN  IF ~val.ok THEN Fail
                    ELSE DeserializeElements(b, start, size, val.i, isArray,
                           IF isArray THEN Append(acc, val.v)
                           ELSE SetProperty(acc, Utf8Decode(SubSeq(b, p + 1, q - 1)), val.v))

DeserializeObject(b, start, isArray) ==
  LET size == Int32At(b, start)
  IN  IF Len(b) < 5 THEN Fail
      ELSE IF size < 5 \/ size > Len(b) THEN Fail
      ELSE DeserializeElements(b, start, size, start + 4, isArray, <<>>)

\* BSON.deserialize(uint8Array): the document, or a BSONError (ok = FALSE).
BSONdeserialize(b) ==
  LET size == Int32At(b, 1)
  IN  IF size < 5 THEN Fail
      ELSE IF Len(b) # size THEN Fail
      ELSE IF b[size] # 0 THEN Fail
      ELSE LET r == DeserializeObject(b, 1, FALSE)
           IN  IF r.ok THEN [ok |-> TRUE, v |-> r.v] ELSE Fail

(***************************************************************************)
(* BSON.serialize of what JSON.parse returns                               *)
(***************************************************************************)
Int32LE(n) ==
  LET m == IF n < 0 THEN n + 2147483647 + 1 ELSE n
  IN  <<m % 256, (m \div 256) % 256, (m \div 65536) % 256,
        (m \div 16777216) + (IF n < 0 THEN 128 ELSE 0)>>

\* The largest p with 2^p <= a, for a >= 1.
RECURSIVE Log2(_)
Log2(a) == IF a < 2 THEN 0 ELSE 1 + Log2(a \div 2)

\* The eight little-endian bytes of the double x = n / 2^k whose fraction has
\* at most twelve significant bits.
Float64LE(x) ==
  LET a   == Abs(x.n)
      p   == Log2(a)
      k   == Log2(x.d)
      M   == IF p <= 12 THEN a * Pow(2, 12 - p) ELSE a \div Pow(2, p - 12)
      M12 == M - 4096
      E   == 1023 + p - k
      exact == x.d = Pow(2, k) /\ (p <= 12 \/ a % Pow(2, p - 12) = 0)
  IN  IF a = 0 THEN <<0, 0, 0, 0, 0, 0, 0, 0>>
      ELSE IF ~exact THEN Unmodelled
      ELSE <<0, 0, 0, 0, 0, M12 % 256, (E % 16) * 16 + (M12 \div 256),
             (IF x.n < 0 THEN 128 ELSE 0) + (E \div 16)>>

IsInt32(x) == x.d = 1

\* serializeNumber: an integer of 32 bits is an int32, any other number a double.
SerializeNumber(x) == IF IsInt32(x) THEN <<16>> ELSE <<1>>

NumberPayload(x) == IF IsInt32(x) THEN Int32LE(x.n) ELSE Float64LE(x)

BsonTypeKey == <<"_", "b", "s", "o", "n", "t", "y", "p", "e">>

\* value._bsontype of an object with the properties p: null when it has none.
BsonTypeOf(p) ==
  IF HasKey(p, BsonTypeKey) THEN p[CHOOSE i \in 1..Len(p) : p[i].k = BsonTypeKey].v ELSE JSNull

HasNul(key) == \E i \in 1..Len(key) : key[i] = CodeUnit(0)

CString(key) == Utf8Encode(key) \o <<0>>

\* The properties an array's elements are written under: "0", "1", ...
IndexProps(a) == [i \in 1..Len(a) |-> Prop(NatToString(i - 1), a[i])]

RECURSIVE SerializeInto(_, _)
RECURSIVE SerializeElement(_, _)

\* An element whose payload is the document d: [ok, b].
Embedded(header, d) == IF d.ok THEN [ok |-> TRUE, b |-> header \o d.b] ELSE Fail

\* One element: type byte, key, payload.  [ok, b]
SerializeElement(key, v) ==
  CASE v.t = "string" ->
         [ok |-> TRUE,
          b |-> <<2>> \o CString(key) \o Int32LE(Len(Utf8Encode(v.s)) + 1) \o Utf8Encode(v.s) \o <<0>>]
    [] v.t = "number" ->
         [ok |-> TRUE, b |-> SerializeNumber(v) \o CString(key) \o NumberPayload(v)]
    [] v.t = "bool" ->
         [ok |-> TRUE, b |-> <<8>> \o CString(key) \o <<IF v.b THEN 1 ELSE 0>>]
    [] v.t = "null" ->
         [ok |-> TRUE, b |-> <<10>> \o CString(key)]
    [] v.t = "array" -> Embedded(<<4>> \o CString(key), SerializeInto(IndexProps(v.a), FALSE))
    [] v.t = "object" ->
         \* An object that claims a _bsontype is not of this library's classes.
         IF BsonTypeOf(v.p).t # "null" THEN Fail
         ELSE Embedded(<<3>> \o CString(key), SerializeInto(v.p, TRUE))

\* The document of the elements els, each [ok, b].
DocumentOf(els) ==
  IF \E i \in 1..Len(els) : ~els[i].ok THEN Fail
  ELSE [ok |-> TRUE,
        b |-> Int32LE(Len(Flatten([i \in 1..Len(els) |-> els[i].b], 1, Len(els))) + 5)
                \o Flatten([i \in 1..Len(els) |-> els[i].b], 1, Len(els)) \o <<0>>]

\* serializeInto: the document of the properties p (checked: the keys are an
\* object's own, which must hold no null byte).  [ok, b]
SerializeInto(p, checked) ==
  IF checked /\ \E i \in 1..Len(p) : HasNul(p[i].k) THEN Fail
  ELSE DocumentOf([i \in 1..Len(p) |-> SerializeElement(p[i].k, p[i].v)])

\* BSON.serialize(value): the bytes, or a BSONError (ok = FALSE).  The root
\* must be an object (an array counts) that is no BSON value itself.
BSONserialize(v) ==
  IF v.t = "array" THEN SerializeInto(IndexProps(v.a), FALSE)
  ELSE IF v.t # "object" THEN Fail
  ELSE IF BsonTypeOf(v.p).t = "string" THEN Fail
  ELSE SerializeInto(v.p, TRUE)

(***************************************************************************)
(* The component's conversions                                             *)
(***************************************************************************)
InvalidBSON == "Invalid BSON format"
InvalidJSON == "Invalid JSON format"

\* A function's outcome: a returned value, or a thrown Error with a message.
Return(value) == [threw |-> FALSE, value |-> value]
Throw(message) == [threw |-> TRUE, isError |-> TRUE, message |-> message]

\* The try block of a conversion: what the second step makes of the first
\* step's value, or the Error the catch block throws in place of either's.
\* document and bytes are [ok, v] and [ok, b].
Stringified(document) ==
  IF document.ok THEN Return(JSONstringify(document.v)) ELSE Throw(InvalidBSON)

convertBSONToJSON(buffer) == Stringified(BSONdeserialize(buffer))

Serialize(document) == IF document.ok THEN BSONserialize(document.v) ELSE Fail

Returned(bytes) == IF bytes.ok THEN Return(bytes.b) ELSE Throw(InvalidJSON)

convertJSONToBSON(jsonString) == Returned(Serialize(JSONparse(jsonString)))

(***************************************************************************)
(* Files                                                                   *)
(*                                                                         *)
(* A File is [name, size, bytes, readable]: size is File.size, bytes what  *)
(* arrayBuffer() resolves to (readable) and the promise rejects for a file *)
(* that cannot be read.  The files at the size limit carry a short content *)
(* in place of their 10 MiB: no step of processFile before the read looks  *)
(* at the content.                                                         *)
(***************************************************************************)
\* BSON documents, as a BSON writer lays them out.
Documents ==
  [
    \* {name: "Ada", active: true, n: 7, z: null, a: [1, "x"], d: {k: -7}, x: 1.5}
    native |->
      <<88, 0, 0, 0, 2, 110, 97, 109, 101, 0, 4, 0, 0, 0, 65, 100, 97, 0, 8, 97, 99, 116,
        105, 118, 101, 0, 1, 16, 110, 0, 7, 0, 0, 0, 10, 122, 0, 4, 97, 0, 21, 0, 0, 0, 16,
        48, 0, 1, 0, 0, 0, 2, 49, 0, 2, 0, 0, 0, 120, 0, 0, 3, 100, 0, 12, 0, 0, 0, 16, 107,
        0, 249, 255, 255, 255, 0, 1, 120, 0, 0, 0, 0, 0, 0, 0, 248, 63, 0>>,
    \* {id: ObjectId("507f1f77bcf86cd799439011")}
    objectId |->
      <<21, 0, 0, 0, 7, 105, 100, 0, 80, 127, 31, 119, 188, 248, 108, 215, 153, 67, 144, 17,
        0>>,
    \* {n: Int64(9223372036854775807)}
    int64Max |->
      <<16, 0, 0, 0, 18, 110, 0, 255, 255, 255, 255, 255, 255, 255, 127, 0>>,
    \* {m: Int64(5)}
    int64 |->
      <<16, 0, 0, 0, 18, 109, 0, 5, 0, 0, 0, 0, 0, 0, 0, 0>>,
    \* {d: DateTime(1676877913064)}, 2023-02-20T07:25:13.064Z
    dateTime |->
      <<16, 0, 0, 0, 9, 100, 0, 232, 91, 182, 109, 134, 1, 0, 0, 0>>,
    \* {b: Binary(subtype 0, "Hi")}
    binary |->
      <<15, 0, 0, 0, 5, 98, 0, 2, 0, 0, 0, 0, 72, 105, 0>>,
    \* {r: Regex("^a", "i")}
    regex |->
      <<13, 0, 0, 0, 11, 114, 0, 94, 97, 0, 105, 0, 0>>,
    \* {t: Timestamp(seconds 2, increment 1)}
    timestamp |->
      <<16, 0, 0, 0, 17, 116, 0, 1, 0, 0, 0, 2, 0, 0, 0, 0>>,
    \* {q: Decimal128("123.45")}
    decimal128 |->
      <<24, 0, 0, 0, 19, 113, 0, 57, 48, 0, 0, 0, 0, 0, 0, 0, 0, 0, 0, 0, 0, 60, 48, 0>>,
    \* {y: Double(2.0)}
    double |->
      <<16, 0, 0, 0, 1, 121, 0, 0, 0, 0, 0, 0, 0, 0, 64, 0>>,
    \* {k: MinKey}
    minKey |->
      <<8, 0, 0, 0, 255, 107, 0, 0>>,
    \* {b: 1, "1": 2}
    keyOrder |->
      <<19, 0, 0, 0, 16, 98, 0, 1, 0, 0, 0, 16, 49, 0, 2, 0, 0, 0, 0>>,
    \* {}: length 5, immediate terminator
    empty |->
      <<5, 0, 0, 0, 0>>,
    \* {n: 7}
    small |->
      <<12, 0, 0, 0, 16, 110, 0, 7, 0, 0, 0, 0>>
  ]

\* Buffers that are no BSON document.
Buffers ==
  [
    \* an empty buffer
    empty |->
      <<>>,
    \* a length prefix (6) larger than the buffer
    longPrefix |->
      <<6, 0, 0, 0, 0>>,
    \* {n: 7} with its terminating null byte replaced
    unterminated |->
      <<12, 0, 0, 0, 16, 110, 0, 7, 0, 0, 0, 1>>,
    \* an empty document followed by one more byte
    trailing |->
      <<5, 0, 0, 0, 0, 0>>,
    \* an element of type 0x20
    unknownTag |->
      <<8, 0, 0, 0, 32, 97, 0, 0>>,
    \* {s: "xy"} whose string lacks its terminator
    badString |->
      <<15, 0, 0, 0, 2, 115, 0, 3, 0, 0, 0, 120, 121, 122, 0>>
  ]

\* JSON texts, and texts that are no JSON.
Texts ==
  [
    \* well-formed, and not laid out as JSON.stringify lays out
    spaced |->
      <<"{", " ", "\"", "a", "\"", ":", "1", ",", "\n", " ", "\"", "b", "\"", ":", " ", "[",
        " ", "]", " ", "}">>,
    \* well-formed
    small |->
      <<"{", "\"", "a", "\"", ":", "1", "}">>,
    \* well-formed
    emptyObject |->
      <<"{", "}">>,
    \* a wrapped ObjectId
    oid |->
      <<"{", "\"", "i", "d", "\"", ":", "{", "\"", "$", "o", "i", "d", "\"", ":", "\"", "5",
        "0", "7", "f", "1", "f", "7", "7", "b", "c", "f", "8", "6", "c", "d", "7", "9", "9",
        "4", "3", "9", "0", "1", "1", "\"", "}", "}">>,
    \* a wrapped Int64
    long |->
      <<"{", "\"", "n", "\"", ":", "{", "\"", "$", "n", "u", "m", "b", "e", "r", "L", "o",
        "n", "g", "\"", ":", "\"", "9", "2", "2", "3", "3", "7", "2", "0", "3", "6", "8",
        "5", "4", "7", "7", "5", "8", "0", "7", "\"", "}", "}">>,
    \* the example document
    person |->
      <<"{", "\"", "n", "a", "m", "e", "\"", ":", "\"", "A", "d", "a", "\"", ",", "\"", "a",
        "c", "t", "i", "v", "e", "\"", ":", "t", "r", "u", "e", ",", "\"", "i", "d", "\"",
        ":", "{", "\"", "$", "o", "i", "d", "\"", ":", "\"", "5", "0", "7", "f", "1", "f",
        "7", "7", "b", "c", "f", "8", "6", "c", "d", "7", "9", "9", "4", "3", "9", "0", "1",
        "1", "\"", "}", "}">>,
    \* well-formed, an array at the root
    array |->
      <<"[", "1", ",", "2", "]">>,
    \* a member without a value
    broken |->
      <<"{", "\"", "a", "\"", ":", "}">>,
    \* an unterminated string
    unterminated |->
      <<"{", "\"", "a", "\"", ":", "\"", "b">>,
    \* a trailing comma
    trailingComma |->
      <<"{", "\"", "a", "\"", ":", "1", ",", "}">>,
    \* well-formed JSON that is no document
    scalar |->
      <<"1", "2", "3">>,
    \* well-formed JSON that is no document
    nullValue |->
      <<"n", "u", "l", "l">>,
    \* well-formed JSON whose key BSON cannot hold
    nulKey |->
      <<"{", "\"", "a", "\\", "u", "0", "0", "0", "0", "\"", ":", "1", "}">>
  ]

MaxFileSize == 10 * 1024 * 1024

File(name, bytes) == [name |-> name, size |-> Len(bytes), bytes |-> bytes, readable |-> TRUE]

Sized(f, size) == [f EXCEPT !.size = size]

Unreadable(f) == [f EXCEPT !.readable = FALSE]

\* The files a session of one upload draws from: every kind of content, name
\* and size.
AllFiles ==
  {
    File(<<"n", "a", "t", "i", "v", "e", ".", "b", "s", "o", "n">>, Documents.native),
    File(<<"o", "i", "d", ".", "b", "s", "o", "n">>, Documents.objectId),
    File(<<"m", "a", "x", ".", "b", "s", "o", "n">>, Documents.int64Max),
    File(<<"i", "n", "t", "6", "4", ".", "b", "s", "o", "n">>, Documents.int64),
    File(<<"d", "a", "t", "e", ".", "b", "s", "o", "n">>, Documents.dateTime),
    File(<<"b", "i", "n", ".", "b", "s", "o", "n">>, Documents.binary),
    File(<<"r", "e", "g", "e", "x", ".", "b", "s", "o", "n">>, Documents.regex),
    File(<<"t", "s", ".", "b", "s", "o", "n">>, Documents.timestamp),
    File(<<"d", "e", "c", ".", "b", "s", "o", "n">>, Documents.decimal128),
    File(<<"d", "o", "u", "b", "l", "e", ".", "b", "s", "o", "n">>, Documents.double),
    File(<<"m", "i", "n", "k", "e", "y", ".", "b", "s", "o", "n">>, Documents.minKey),
    File(<<"o", "r", "d", "e", "r", ".", "b", "s", "o", "n">>, Documents.keyOrder),
    File(<<"e", "m", "p", "t", "y", ".", "b", "s", "o", "n">>, Documents.empty),
    File(<<"B", ".", "B", "S", "O", "N">>, Documents.small),
    File(<<"b", "s", "o", "n">>, Documents.small),
    File(<<"n", "o", "n", "e", ".", "b", "s", "o", "n">>, Buffers.empty),
    File(<<"l", "o", "n", "g", ".", "b", "s", "o", "n">>, Buffers.longPrefix),
    File(<<"u", "n", "t", "e", "r", "m", ".", "b", "s", "o", "n">>, Buffers.unterminated),
    File(<<"t", "r", "a", "i", "l", ".", "b", "s", "o", "n">>, Buffers.trailing),
    File(<<"t", "a", "g", ".", "b", "s", "o", "n">>, Buffers.unknownTag),
    File(<<"s", "t", "r", ".", "b", "s", "o", "n">>, Buffers.badString),
    File(<<"s", "p", "a", "c", "e", "d", ".", "j", "s", "o", "n">>, Utf8Encode(Texts.spaced)),
    File(<<"b", "o", "m", ".", "j", "s", "o", "n">>, <<239, 187, 191>> \o Utf8Encode(Texts.small)),
    File(<<"o", "i", "d", ".", "j", "s", "o", "n">>, Utf8Encode(Texts.oid)),
    File(<<"l", "o", "n", "g", ".", "j", "s", "o", "n">>, Utf8Encode(Texts.long)),
    File(<<"p", "e", "r", "s", "o", "n", ".", "j", "s", "o", "n">>, Utf8Encode(Texts.person)),
    File(<<"a", "r", "r", "a", "y", ".", "j", "s", "o", "n">>, Utf8Encode(Texts.array)),
    File(<<"b", "r", "o", "k", "e", "n", ".", "j", "s", "o", "n">>, Utf8Encode(Texts.broken)),
    File(<<"u", "n", "t", "e", "r", "m", ".", "j", "s", "o", "n">>, Utf8Encode(Texts.unterminated)),
    File(<<"n", "o", "n", "e", ".", "j", "s", "o", "n">>, Buffers.empty),
    File(<<"c", "o", "m", "m", "a", ".", "j", "s", "o", "n">>, Utf8Encode(Texts.trailingComma)),
    File(<<"s", "c", "a", "l", "a", "r", ".", "j", "s", "o", "n">>, Utf8Encode(Texts.scalar)),
    File(<<"n", "u", "l", "l", ".", "j", "s", "o", "n">>, Utf8Encode(Texts.nullValue)),
    File(<<"n", "u", "l", ".", "j", "s", "o", "n">>, Utf8Encode(Texts.nulKey)),
    File(<<"j", "s", "o", "n">>, Utf8Encode(Texts.small)),
    File(<<"D", "A", "T", "A", ".", "J", "S", "O", "N">>, Utf8Encode(Texts.small)),
    File(<<"a", ".", "J", "s", "o", "n">>, Utf8Encode(Texts.small)),
    File(<<"a", ".", "t", "x", "t">>, Utf8Encode(Texts.small)),
    File(<<"R", "E", "A", "D", "M", "E">>, Utf8Encode(Texts.small)),
    File(<<"a", ".", "j", "s", "o", "n", ".", "t", "x", "t">>, Utf8Encode(Texts.small)),
    File(<<"a", ".", "b", "s", "o", "n", ".", "j", "s", "o", "n">>, Utf8Encode(Texts.small)),
    File(<<".", "j", "s", "o", "n">>, Utf8Encode(Texts.small)),
    File(<<"a", ".", "j", "s", "o", "n", ".">>, Utf8Encode(Texts.small)),
    File(<<"a", ".", "j", "s", "o", "n", "x">>, Utf8Encode(Texts.small)),
    File(<<"a", ".", "b", "s", "o", "n">>, Utf8Encode(Texts.small)),
    Sized(File(<<"b", "i", "g", ".", "j", "s", "o", "n">>, Utf8Encode(Texts.small)), MaxFileSize + 1),
    Sized(File(<<"b", "i", "g", ".", "b", "s", "o", "n">>, Documents.small), MaxFileSize + 1),
    Sized(File(<<"b", "i", "g", ".", "t", "x", "t">>, Utf8Encode(Texts.small)), MaxFileSize + 1),
    Sized(File(<<"f", "u", "l", "l", ".", "j", "s", "o", "n">>, Utf8Encode(Texts.small)), MaxFileSize),
    Sized(File(<<"f", "u", "l", "l", ".", "b", "s", "o", "n">>, Documents.small), MaxFileSize),
    Sized(File(<<"f", "u", "l", "l", ".", "t", "x", "t">>, Utf8Encode(Texts.small)), MaxFileSize),
    Unreadable(File(<<"g", "o", "n", "e", ".", "j", "s", "o", "n">>, Utf8Encode(Texts.small))),
    Unreadable(File(<<"g", "o", "n", "e", ".", "b", "s", "o", "n">>, Documents.small))
  }

\* The files of a session of many uploads: one of each outcome of processFile.
Files ==
  { File(<<"B", ".", "B", "S", "O", "N">>, Documents.small),
    File(<<"u", "n", "t", "e", "r", "m", ".", "b", "s", "o", "n">>, Buffers.unterminated),
    File(<<"s", "p", "a", "c", "e", "d", ".", "j", "s", "o", "n">>, Utf8Encode(Texts.spaced)),
    File(<<"b", "r", "o", "k", "e", "n", ".", "j", "s", "o", "n">>, Utf8Encode(Texts.broken)),
    File(<<"a", ".", "t", "x", "t">>, Utf8Encode(Texts.small)),
    Sized(File(<<"b", "i", "g", ".", "j", "s", "o", "n">>, Utf8Encode(Texts.small)), MaxFileSize + 1),
    Unreadable(File(<<"g", "o", "n", "e", ".", "j", "s", "o", "n">>, Utf8Encode(Texts.small))) }

\* What the user may type into the editor.
EditTexts == {Texts.broken, Texts.emptyObject}

\* The most processFile calls awaiting their file at a time.
MaxInFlight == 2

(***************************************************************************)
(* The component's state                                                   *)
(***************************************************************************)
\* null where a string is expected (error, a FileType), and where an object is.
null == "null"
NullRef == [null |-> TRUE]

VARIABLES
  file,              \* File | null
  conversionResult,  \* ConversionResult | null
  editorContent,     \* string
  status,            \* 'idle' | 'success' | 'error'
  error,             \* string | null
  isLoading,         \* boolean
  pending,           \* the processFile calls awaiting file.arrayBuffer(), oldest first
  downloaded         \* the file the last click on Download saved, or null

vars == <<file, conversionResult, editorContent, status, error, isLoading, pending, downloaded>>

SizeError == "File size exceeds 10MB limit"
TypeError == "Unsupported file type. Please upload a .json or .bson file."
ReadError == "The requested file could not be read"
OtherError == "An error occurred during conversion"
DownloadError == "Invalid JSON format for BSON conversion"

\* String.prototype.toLowerCase, one character.
ToLowerCase(ch) ==
  IF IsAscii(ch) /\ Ord(ch) >= 65 /\ Ord(ch) <= 90 THEN CodeUnit(Ord(ch) + 32) ELSE ch

\* The positions of ch in s.
Places(s, ch) == {i \in 1..Len(s) : s[i] = ch}

Max(S) == CHOOSE m \in S : \A k \in S : k <= m

\* name.split('.').pop(): what follows the last dot, the whole name without one.
LastSegment(name) ==
  IF Places(name, ".") = {} THEN name
  ELSE SubSeq(name, Max(Places(name, ".")) + 1, Len(name))

detectFileType(f) ==
  LET extension == [i \in 1..Len(LastSegment(f.name)) |-> ToLowerCase(LastSegment(f.name)[i])]
  IN  IF extension = <<"j", "s", "o", "n">> THEN "json"
      ELSE IF extension = <<"b", "s", "o", "n">> THEN "bson"
      ELSE null

\* name.replace(/\.[^/.]+$/, ''): the name without its extension.
RemoveExtension(name) ==
  LET dots == Places(name, ".")
  IN  IF dots # {} /\ Max(dots) < Len(name) /\ \A i \in (Max(dots) + 1)..Len(name) : name[i] # "/"
      THEN SubSeq(name, 1, Max(dots) - 1)
      ELSE name

\* await file.arrayBuffer()
ArrayBuffer(f) ==
  IF f.readable THEN Return(f.bytes) ELSE Throw(ReadError)

\* new TextDecoder().decode(buffer)
Decode(buffer) == TextDecode(buffer)

\* A result recorded with the type of the upload as its converted type:
\* SuccessHasResult tells it from Result.
ResultOfSameType(f, converted, convertedType) ==
  IF converted.threw
  THEN converted
  ELSE Return([content |-> converted.value,
               originalType |-> detectFileType(f),
               convertedType |-> detectFileType(f),
               fileName |-> RemoveExtension(f.name)])

\* Lines 102-107 of processFile: the result of a conversion that did not
\* throw (converted is convertedContent returned, or what was thrown).
Result(f, converted, convertedType) ==
  IF converted.threw THEN converted
  ELSE Return([content |-> converted.value,
               originalType |-> detectFileType(f),
               convertedType |-> convertedType,
               fileName |-> RemoveExtension(f.name)])

\* Lines 95-98 with the validated document converted back for display, as the
\* comment on line 96 has it: JsonUploadOnlyValidates tells it from Validated.
Redisplayed(textContent, bsonData) ==
  IF bsonData.threw THEN bsonData ELSE convertBSONToJSON(bsonData.value)

\* Lines 95-98: the text is the content, if convertJSONToBSON returns.
Validated(textContent, bsonData) ==
  IF bsonData.threw THEN bsonData ELSE Return(textContent)

ValidatedText(textContent) == Validated(textContent, convertJSONToBSON(textContent))

\* Lines 88-107 of processFile: the result for the buffer read, or what is thrown.
Convert(f, buffer) ==
  IF detectFileType(f) = "bson"
  THEN Result(f, convertBSONToJSON(buffer), "json")
  ELSE Result(f, ValidatedText(Decode(buffer)), "bson")

\* The catch block without the finally block: NoErrorEscapes tells it from
\* Catch.
CatchOnly(err) ==
  /\ error' = (IF err.isError THEN err.message ELSE OtherError)
  /\ status' = "error"
  /\ UNCHANGED isLoading

\* The catch and finally blocks of processFile.
Catch(err) ==
  /\ error' = (IF err.isError THEN err.message ELSE OtherError)
  /\ status' = "error"
  /\ isLoading' = FALSE

\* History kept with each call in flight, which the component does not hold:
\* sole holds while no other call has begun since the call began; afterFailure
\* records that the call before it had failed and that no call was in flight
\* when it began; watched marks one call in flight at a time, to follow it to
\* its end.
Overlapped(calls) == [i \in 1..Len(calls) |-> [calls[i] EXCEPT !.sole = FALSE]]

Watching == \E i \in 1..Len(pending) : pending[i].watched

\* A call as it begins to wait for its file.
Call(f) ==
  [file |-> f,
   sole |-> pending = <<>>,
   afterFailure |-> pending = <<>> /\ status = "error",
   watched |-> ~Watching]

\* A size check that refuses a file at the limit: SizeCeilingEnforced tells it
\* from TooLarge.
AtLeastLimit(f) == f.size >= MaxFileSize

\* Line 78: the size check.
TooLarge(f) == f.size > MaxFileSize

\* processFile up to its await: the checks throw, or the read starts.
ProcessFile(f) ==
  IF TooLarge(f)
  THEN Catch(Throw(SizeError)) /\ pending' = Overlapped(pending)
  ELSE IF detectFileType(f) = null
  THEN Catch(Throw(TypeError)) /\ pending' = Overlapped(pending)
  ELSE /\ Len(pending) < MaxInFlight
       /\ isLoading' = TRUE
       /\ error' = null
       /\ status' = "idle"
       /\ pending' = Append(Overlapped(pending), Call(f))

handleDrop(droppedFile) ==
  /\ file' = droppedFile
  /\ ProcessFile(droppedFile)
  /\ UNCHANGED <<conversionResult, editorContent, downloaded>>

\* The picker opens from the Choose File button, disabled while isLoading.
handleFileInput(selectedFile) ==
  /\ ~isLoading
  /\ file' = selectedFile
  /\ ProcessFile(selectedFile)
  /\ UNCHANGED <<conversionResult, editorContent, downloaded>>

Remove(seq, i) == SubSeq(seq, 1, i - 1) \o SubSeq(seq, i + 1, Len(seq))

\* Lines 87-107, given what the await came to: the read throws, or the
\* buffer is converted.
Converted(f, buffer) == IF buffer.threw THEN buffer ELSE Convert(f, buffer.value)

\* What the call on each file comes to once the read settles: its result, or
\* what is thrown.  It is the file's alone, whatever the component's state.
Outcomes == [f \in AllFiles |-> Converted(f, ArrayBuffer(f))]

Outcome(call) == Outcomes[call.file]

\* A call that, failing, clears what is displayed: FailedUploadKeepsResult
\* tells it from Settle.
SettleClearing(result) ==
  IF result.threw
  THEN /\ error' = (IF result.isError THEN result.message ELSE OtherError)
       /\ status' = "error"
       /\ isLoading' = FALSE
       /\ conversionResult' = NullRef
       /\ editorContent' = <<>>
  ELSE /\ conversionResult' = result.value
       /\ editorContent' = result.value.content
       /\ status' = "success"
       /\ isLoading' = FALSE
       /\ UNCHANGED error

\* Lines 109-118 of processFile: the state a call leaves.
Settle(result) ==
  IF result.threw
  THEN Catch(result) /\ UNCHANGED <<conversionResult, editorContent>>
  ELSE /\ conversionResult' = result.value
       /\ editorContent' = result.value.content
       /\ status' = "success"
       /\ isLoading' = FALSE
       /\ UNCHANGED error

\* processFile from its await on, for the i-th call waiting.
Resume(i) ==
  /\ i \in 1..Len(pending)
  /\ pending' = Remove(pending, i)
  /\ Settle(Outcome(pending[i]))
  /\ UNCHANGED <<file, downloaded>>

\* MonacoEditor onChange: setEditorContent(value || '')
onChange(value) ==
  /\ editorContent' = value
  /\ UNCHANGED <<file, conversionResult, status, error, isLoading, pending, downloaded>>

\* The Blob handed to the browser, under its file name.
Blob(fileName, type, text, data) ==
  [fileName |-> fileName, type |-> type, text |-> text, data |-> data]

\* Lines 173-180 of downloadFile, and the save that follows.
SaveBson(bsonData) ==
  IF bsonData.threw
  THEN error' = DownloadError /\ UNCHANGED downloaded
  ELSE /\ downloaded' = Blob(conversionResult.fileName \o <<".", "b", "s", "o", "n">>,
                             "application/octet-stream", <<>>, bsonData.value)
       /\ UNCHANGED error

\* A download that encodes the text of the upload, not the editor's:
\* DownloadEncodesEditor tells it from downloadFile.
downloadUploaded ==
  /\ conversionResult # NullRef
  /\ IF conversionResult.convertedType = "json"
     THEN /\ downloaded' = Blob(conversionResult.fileName \o <<".", "j", "s", "o", "n">>,
                                "application/json", conversionResult.content, <<>>)
          /\ UNCHANGED error
     ELSE SaveBson(convertJSONToBSON(conversionResult.content))
  /\ UNCHANGED <<file, conversionResult, editorContent, status, isLoading, pending>>

downloadFile ==
  /\ conversionResult # NullRef
  /\ IF conversionResult.convertedType = "json"
     THEN /\ downloaded' = Blob(conversionResult.fileName \o <<".", "j", "s", "o", "n">>,
                                "application/json", editorContent, <<>>)
          /\ UNCHANGED error
     ELSE SaveBson(convertJSONToBSON(editorContent))
  /\ UNCHANGED <<file, conversionResult, editorContent, status, isLoading, pending>>

Init ==
  /\ file = NullRef
  /\ conversionResult = NullRef
  /\ editorContent = <<>>
  /\ status = "idle"
  /\ error = null
  /\ isLoading = FALSE
  /\ pending = <<>>
  /\ downloaded = NullRef

\* A session of any number of uploads, over Files.
Next ==
  \/ \E f \in Files : handleDrop(f)
  \/ \E f \in Files : handleFileInput(f)
  \/ \E i \in 1..Len(pending) : Resume(i)
  \/ \E value \in EditTexts : onChange(value)
  \/ downloadFile

Spec == Init /\ [][Next]_vars

\* A session of one upload, over AllFiles.
NextUpload ==
  \/ \E f \in AllFiles : file = NullRef /\ handleDrop(f)
  \/ \E f \in AllFiles : file = NullRef /\ handleFileInput(f)
  \/ \E i \in 1..Len(pending) : Resume(i)
  \/ \E value \in EditTexts : onChange(value)
  \/ downloadFile

UploadSpec == Init /\ [][NextUpload]_vars

\* A session of file selections alone: no edit, no download.
NextSelect ==
  \/ \E f \in Files : handleDrop(f)
  \/ \E f \in Files : handleFileInput(f)
  \/ \E i \in 1..Len(pending) : Resume(i)

SelectSpec == Init /\ [][NextSelect]_vars

\* Every call waiting for its file resumes: the read settles.
FairSpec == Spec /\ \A i \in 1..MaxInFlight : WF_vars(Resume(i))

(***************************************************************************)
(* Steps of processFile, as the properties below speak of them             *)
(***************************************************************************)
\* A call of processFile begins: a file is dropped or picked.
Begins == file' # NullRef /\ (handleDrop(file') \/ handleFileInput(file'))

\* A call of processFile ends, in its catch block or after line 111.
Fails == status' = "error" /\ (Begins \/ \E i \in 1..Len(pending) : Resume(i))

Succeeds == status' = "success" /\ \E i \in 1..Len(pending) : Resume(i)

\* name ends in suffix, compared case-insensitively.
HasSuffix(name, suffix) ==
  /\ Len(name) >= Len(suffix)
  /\ \A i \in 1..Len(suffix) : ToLowerCase(name[Len(name) - Len(suffix) + i]) = suffix[i]

DotJson == <<".", "j", "s", "o", "n">>
DotBson == <<".", "b", "s", "o", "n">>

(***************************************************************************)
(* C1                                                                      *)
(***************************************************************************)
\* C1: for every valid BSON document d, converting d to JSON text with
\* convertBSONToJSON and converting that text back with convertJSONToBSON
\* yields a document equal to d: same key order, same value types, same
\* values.  The documents of AllFiles are laid out as a BSON writer lays them
\* out, one encoding for one document, so equal documents are equal bytes.
\* In a session of one upload the text displayed for a .bson file is
\* convertBSONToJSON of the file's bytes.
JsonBridgeRoundTrip ==
  (conversionResult # NullRef /\ conversionResult.originalType = "bson")
    => convertJSONToBSON(conversionResult.content) = Return(file.bytes)

(***************************************************************************)
(* C2                                                                      *)
(***************************************************************************)
IsHexString(v) == v.t = "string" /\ \A i \in 1..Len(v.s) : IsHex(v.s[i])

IsDecimalString(v) ==
  /\ v.t = "string"
  /\ Len(v.s) >= 1
  /\ \A i \in 1..Len(v.s) : IsDigit(v.s[i]) \/ (i = 1 /\ v.s[i] = "-" /\ Len(v.s) > 1)

\* The type a wrapped-type object stands for, "none" for any other value.
WrappedType(v) ==
  IF v.t # "object" \/ Len(v.p) # 1 THEN "none"
  ELSE IF v.p[1].k = <<"$", "o", "i", "d">> /\ IsHexString(v.p[1].v) /\ Len(v.p[1].v.s) = 24
  THEN "ObjectId"
  ELSE IF v.p[1].k = <<"$", "n", "u", "m", "b", "e", "r", "L", "o", "n", "g">>
          /\ IsDecimalString(v.p[1].v)
  THEN "Int64"
  ELSE "none"

\* What BSON.deserialize makes of a value of the type: an Int64 becomes a
\* number where a number holds it.
DecodesAs(v, type) ==
  IF type = "Int64" THEN v.t \in {"Long", "number"} ELSE v.t = type

\* Every wrapped-type member of the parsed text is of its type in the document.
Reconstructed(parsed, decoded) ==
  /\ decoded.t = "object"
  /\ \A i \in 1..Len(parsed.p) :
       WrappedType(parsed.p[i].v) # "none" =>
         \E j \in 1..Len(decoded.p) :
           /\ decoded.p[j].k = parsed.p[i].k
           /\ DecodesAs(decoded.p[j].v, WrappedType(parsed.p[i].v))

\* C2: a JSON object that follows the wrapped-type convention ({"$oid": 24 hex
\* characters}, {"$numberLong": a decimal string}) is encoded by
\* convertJSONToBSON as the typed value it stands for, not as a nested document
\* with a key that starts with "$": whenever Download saves the BSON of the
\* editor's text, each wrapped-type member of the text is of its type in the
\* bytes saved.
WrappedTypesReconstructed ==
  [][(downloaded' # downloaded /\ downloaded'.type = "application/octet-stream"
        /\ JSONparse(editorContent).ok /\ JSONparse(editorContent).v.t = "object")
       => /\ BSONdeserialize(downloaded'.data).ok
          /\ Reconstructed(JSONparse(editorContent).v, BSONdeserialize(downloaded'.data).v)]_vars

(***************************************************************************)
(* C3                                                                      *)
(***************************************************************************)
\* C3: after a processFile call that ended in failure, and with no other call
\* in flight, a subsequent call on a valid file ends with status = 'success',
\* error = null, isLoading = false, and with conversionResult and
\* editorContent those of the new file alone, as from the initial state.
FailureDoesNotCorrupt ==
  [][\A i \in 1..Len(pending) :
       (/\ pending[i].afterFailure
        /\ pending[i].sole
        /\ ~Outcome(pending[i]).threw
        /\ Resume(i))
       => /\ status' = "success"
          /\ error' = null
          /\ isLoading' = FALSE
          /\ conversionResult' = Outcome(pending[i]).value
          /\ editorContent' = Outcome(pending[i]).value.content]_vars

(***************************************************************************)
(* C4                                                                      *)
(***************************************************************************)
\* C4: every processFile call whose read settles finishes (the call watched
\* leaves the calls in flight), and the step that ends a call, in its catch
\* block or after line 111, leaves isLoading false and status 'success' or
\* 'error', with error a message when status is 'error'.  Nothing is thrown
\* to handleDrop or handleFileInput: the step that ends a call is a step of
\* the component, whatever the file.
NoErrorEscapes ==
  /\ [][(Fails \/ Succeeds)
          => /\ isLoading' = FALSE
             /\ status' \in {"success", "error"}
             /\ (status' = "error" => error' # null /\ error' # "")]_vars
  /\ (Watching ~> ~Watching)

\* A call has ended in each way: one failed, with its message, after one
\* succeeded.
CallsEnded ==
  /\ pending = <<>>
  /\ status = "error"
  /\ error = InvalidJSON
  /\ ~isLoading
  /\ conversionResult # NullRef

(***************************************************************************)
(* C5                                                                      *)
(***************************************************************************)
\* C5: a .bson upload whose bytes the decoder rejects fails with 'Invalid BSON
\* format'; a .json upload whose text is not well-formed JSON fails with
\* 'Invalid JSON format'; and 'Invalid JSON format' is reported only for a
\* text with a JSON syntax error, not for a well-formed text that the BSON
\* encoder rejects.  Stated of the one upload of a session, once it has ended.
ErrorsClassifiedByCause ==
  (file # NullRef /\ pending = <<>> /\ file.readable /\ ~TooLarge(file))
    => /\ (detectFileType(file) = "bson" /\ ~BSONdeserialize(file.bytes).ok)
            => (status = "error" /\ error = InvalidBSON)
       /\ (detectFileType(file) = "json" /\ ~JSONparse(Decode(file.bytes)).ok)
            => (status = "error" /\ error = InvalidJSON)
       /\ error = InvalidJSON => ~JSONparse(Decode(file.bytes)).ok

(***************************************************************************)
(* C6                                                                      *)
(***************************************************************************)
\* C6: for every file larger than 10 * 1024 * 1024 bytes processFile reads no
\* bytes and converts nothing (no call waits for the file, no result is set)
\* and ends with status = 'error' and error = 'File size exceeds 10MB limit';
\* a file of exactly 10 * 1024 * 1024 bytes passes the size check.
SizeCeilingEnforced ==
  [][\A f \in AllFiles :
       (handleDrop(f) \/ handleFileInput(f))
       => /\ f.size > 10 * 1024 * 1024
            => /\ Len(pending') = Len(pending)
               /\ status' = "error"
               /\ error' = SizeError
               /\ ~isLoading'
               /\ UNCHANGED <<conversionResult, editorContent>>
          /\ f.size <= 10 * 1024 * 1024 => error' # SizeError
          /\ (f.size = 10 * 1024 * 1024 /\ (HasSuffix(f.name, DotJson) \/ HasSuffix(f.name, DotBson)))
               => (Len(pending') = Len(pending) + 1 /\ pending'[Len(pending')].file = f)]_vars

\* A file over the limit was refused and a file at the limit is being read.
OversizeRefused ==
  /\ file # NullRef
  /\ \/ file.size > 10 * 1024 * 1024 /\ error = SizeError /\ pending = <<>>
     \/ file.size = 10 * 1024 * 1024 /\ pending # <<>>

(***************************************************************************)
(* C7                                                                      *)
(***************************************************************************)
\* C7: processFile treats a file as BSON input if and only if its name ends in
\* '.bson' and as JSON input if and only if its name ends in '.json', compared
\* case-insensitively; every file whose name has neither suffix, a name
\* without a '.' among them, is rejected with 'Unsupported file type. Please
\* upload a .json or .bson file.' and no conversion.  Stated of files within
\* the size limit: the one rejected starts no read, the one accepted is
\* recorded with the type of its suffix.
DirectionFromSuffix ==
  /\ [][\A f \in AllFiles :
          ((handleDrop(f) \/ handleFileInput(f)) /\ ~TooLarge(f))
          => IF HasSuffix(f.name, DotJson) \/ HasSuffix(f.name, DotBson)
             THEN Len(pending') = Len(pending) + 1 /\ error' = null
             ELSE /\ Len(pending') = Len(pending)
                  /\ status' = "error"
                  /\ error' = TypeError
                  /\ UNCHANGED <<conversionResult, editorContent>>]_vars
  /\ [][\A i \in 1..Len(pending) :
          (Resume(i) /\ status' = "success")
          => /\ conversionResult'.originalType = "bson" <=> HasSuffix(pending[i].file.name, DotBson)
             /\ conversionResult'.originalType = "json" <=> HasSuffix(pending[i].file.name, DotJson)]_vars

FailedUploadKeepsResult ==
  /\ [][Begins => UNCHANGED <<conversionResult, editorContent>>]_vars
  /\ [][Fails => UNCHANGED <<conversionResult, editorContent, downloaded>>]_vars
  /\ [][(Fails /\ ~Begins) => UNCHANGED file]_vars

\* An upload failed while the result of an earlier one is displayed, edited.
FailedOverResult ==
  /\ status = "error"
  /\ error \in {InvalidJSON, TypeError, ReadError}
  /\ pending = <<>>
  /\ conversionResult # NullRef
  /\ editorContent # conversionResult.content

(***************************************************************************)
(* C11                                                                     *)
(***************************************************************************)
\* C11: with a result whose convertedType is 'bson', a click on Download
\* converts editorContent as it is at the click with convertJSONToBSON: if the
\* conversion returns, the file saved holds its bytes; if it throws, no file
\* is saved, error becomes 'Invalid JSON format for BSON conversion', and
\* conversionResult, editorContent and status stay as they were.  While
\* conversionResult is null no file is saved and no such error is set.
DownloadEncodesEditor ==
  /\ [][(downloadFile /\ conversionResult.convertedType = "bson")
          => IF convertJSONToBSON(editorContent).threw
             THEN /\ error' = DownloadError
                  /\ UNCHANGED <<downloaded, conversionResult, editorContent, status>>
             ELSE /\ downloaded'.type = "application/octet-stream"
                  /\ downloaded'.data = convertJSONToBSON(editorContent).value
                  /\ UNCHANGED <<error, conversionResult, editorContent, status>>]_vars
  /\ [][conversionResult = NullRef
          => (downloaded' = downloaded /\ error' # DownloadError)]_vars

\* An edited text was saved as BSON, and a later click on a broken text was
\* refused: the file saved is that of the edit, not of the upload.
EditedTextDownloaded ==
  /\ conversionResult # NullRef
  /\ conversionResult.convertedType = "bson"
  /\ conversionResult.content = Texts.spaced
  /\ downloaded # NullRef
  /\ downloaded.data = convertJSONToBSON(Texts.emptyObject).value
  /\ editorContent = Texts.broken
  /\ error = DownloadError
  /\ status = "success"

(***************************************************************************)
(* C12                                                                     *)
(***************************************************************************)
\* What processFile comes to on a file, from its checks to its end.
Processed(f) ==
  IF TooLarge(f) THEN Throw(SizeError)
  ELSE IF detectFileType(f) = null THEN Throw(TypeError)
  ELSE Outcomes[f]

\* C12: after any sequence of file selections, once no processFile call is in
\* flight, what is displayed is the outcome of the file selected last, the one
\* held in file: if processFile succeeds on it, its result, its content in the
\* editor, status 'success' and no error; if processFile fails on it, status
\* 'error' and its message.
LastSelectedWins ==
  (pending = <<>> /\ file # NullRef)
    => IF Processed(file).threw
       THEN status = "error" /\ error = Processed(file).message
       ELSE /\ status = "success"
            /\ error = null
            /\ conversionResult = Processed(file).value
            /\ editorContent = Processed(file).value.content

(***************************************************************************)
(* C13                                                                     *)
(***************************************************************************)
\* C13: in every reachable state isLoading is true if and only if at least
\* one processFile call has started and not yet finished.
LoadingReflectsInFlight == isLoading <=> pending # <<>>

(***************************************************************************)
(* C14                                                                     *)
(***************************************************************************)
\* C14: in every reachable state error is non-null if and only if status is
\* 'error'; so the error alert (line 291) and the success alert (line 298)
\* are never displayed together.
ErrorAgreesWithStatus ==
  /\ error # null <=> status = "error"
  /\ ~(error # null /\ status = "success" /\ conversionResult # NullRef)

(***************************************************************************)
(* C15                                                                     *)
(***************************************************************************)
\* C15: in every reachable state status = 'success' implies conversionResult
\* is non-null; a non-null conversionResult has originalType 'json' or 'bson'
\* and as convertedType the other of the two; and no step sets a non-null
\* conversionResult back to null.
SuccessHasResult ==
  /\ [](status = "success" => conversionResult # NullRef)
  /\ [](conversionResult # NullRef
         => \/ conversionResult.originalType = "json" /\ conversionResult.convertedType = "bson"
            \/ conversionResult.originalType = "bson" /\ conversionResult.convertedType = "json")
  /\ [][conversionResult # NullRef => conversionResult' # NullRef]_vars

\* A .bson upload succeeded after the result of a .json upload had been saved:
\* the result was replaced, and a call is waiting that may fail over it.
ResultReplaced ==
  /\ status = "success"
  /\ conversionResult # NullRef
  /\ conversionResult.originalType = "bson"
  /\ conversionResult.convertedType = "json"
  /\ downloaded # NullRef
  /\ downloaded.type = "application/octet-stream"
  /\ pending # <<>>
=============================================================================
